---- MODULE Spec2Model ----
(***************************************************************************)
(* Model of src/main.py: an exchange-listing monitor.  A record file holds *)
(* the log of (source, symbol, timestamp) observations; check_all fetches  *)
(* the four exchanges, appends every pair that is not in the log and sends *)
(* one message with a line per appended pair.  Strings are tuples of       *)
(* one-character strings so that startswith / endswith / replace are       *)
(* computed as Python computes them.                                       *)
(***************************************************************************)
EXTENDS Naturals, Sequences, FiniteSets

\* ------------------------------------------------------------------ bounds
\* number of check_all invocations explored
MaxCycles == 2
\* greatest value of the wall clock (whole seconds)
MaxClock == 0
\* greatest number of instruments in one Binance response
MaxList == 2
\* greatest number of failures (of a fetch, a file read, a file write or a
\* delivery) injected in one run
MaxFaults == 1
\* greatest number of pieces concatenated into a raw identifier
MaxPieces == 3

\* ----------------------------------------------------------------- strings
KRW_ == <<"K", "R", "W", "-">>
DashUSDT == <<"-", "U", "S", "D", "T">>
DashSWAP == <<"-", "S", "W", "A", "P">>
USDT == <<"U", "S", "D", "T">>

\* str.startswith(prefix)
StartsWith(s, prefix) ==
    /\ Len(s) >= Len(prefix)
    /\ SubSeq(s, 1, Len(prefix)) = prefix

\* str.endswith(suffix)
EndsWith(s, suffix) ==
    /\ Len(s) >= Len(suffix)
    /\ SubSeq(s, Len(s) - Len(suffix) + 1, Len(s)) = suffix

\* str.replace(old, ""): every non-overlapping occurrence of old, scanning
\* from the left, is removed
RECURSIVE Replace(_, _)
Replace(s, old) ==
    IF Len(s) < Len(old) THEN s
    ELSE IF StartsWith(s, old)
         THEN Replace(SubSeq(s, Len(old) + 1, Len(s)), old)
         ELSE <<Head(s)>> \o Replace(Tail(s), old)

\* one pass of the suffix loop of clean_symbol
StripSuffix(symbol, suffix) ==
    IF EndsWith(symbol, suffix) THEN Replace(symbol, suffix) ELSE symbol

clean_symbol(symbol) ==
    LET s0 == IF StartsWith(symbol, KRW_) THEN Replace(symbol, KRW_) ELSE symbol
        s1 == StripSuffix(s0, DashUSDT)
        s2 == StripSuffix(s1, DashSWAP)
        s3 == StripSuffix(s2, USDT)
    IN  s3

\* ---------------------------------------------------------------- adapters
\* insertion order of the all_sources dict
Sources == <<"Binance", "Bybit", "OKX", "Upbit">>
SourceSet == {"Binance", "Bybit", "OKX", "Upbit"}

AUSDT == <<"A", "U", "S", "D", "T">>
BUSDT == <<"B", "U", "S", "D", "T">>
AUSDC == <<"A", "U", "S", "D", "C">>
A_USDT_SWAP == <<"A", "-", "U", "S", "D", "T", "-", "S", "W", "A", "P">>
A_USD_SWAP == <<"A", "-", "U", "S", "D", "-", "S", "W", "A", "P">>
KRW_A == <<"K", "R", "W", "-", "A">>
BTC_A == <<"B", "T", "C", "-", "A">>

\* all sequences over S of length 0..n
RECURSIVE SeqsUpTo(_, _)
SeqsUpTo(S, n) ==
    IF n = 0 THEN {<<>>}
    ELSE LET shorter == SeqsUpTo(S, n - 1)
         IN  shorter \cup {Append(q, x) : q \in shorter, x \in S}

\* the instruments an exchange may report
Instruments(source) ==
    CASE source = "Binance" ->
           {[symbol |-> AUSDT, contractType |-> "PERPETUAL", quoteAsset |-> "USDT"],
            [symbol |-> BUSDT, contractType |-> "CURRENT_QUARTER", quoteAsset |-> "USDT"]}
      [] source = "Bybit" -> {[symbol |-> AUSDT], [symbol |-> AUSDC]}
      [] source = "OKX" ->
           {[instId |-> A_USDT_SWAP, settleCcy |-> "USDT"],
            [instId |-> A_USD_SWAP, settleCcy |-> "USD"]}
      [] source = "Upbit" -> {[market |-> KRW_A], [market |-> BTC_A]}

\* what requests.get(url).json() can give: a body with a list of
\* instruments, no answer at all (the call raises), or a body that is not
\* JSON or lacks the expected field
FailureKinds == {"transport_error", "malformed"}
Responses(source) ==
    {[kind |-> "ok", body |-> b] :
        b \in SeqsUpTo(Instruments(source), IF source = "Binance" THEN MaxList ELSE 1)}
    \cup {[kind |-> k, body |-> <<>>] : k \in FailureKinds}

fetch_binance(resp) ==
    LET keep(s) == s.contractType = "PERPETUAL" /\ s.quoteAsset = "USDT"
        kept == SelectSeq(resp.body, keep)
    IN  IF resp.kind # "ok" THEN [raised |-> TRUE, symbols |-> <<>>]
        ELSE [raised |-> FALSE, symbols |-> [i \in 1..Len(kept) |-> kept[i].symbol]]

fetch_bybit(resp) ==
    LET keep(s) == EndsWith(s.symbol, USDT)
        kept == SelectSeq(resp.body, keep)
    IN  IF resp.kind # "ok" THEN [raised |-> TRUE, symbols |-> <<>>]
        ELSE [raised |-> FALSE, symbols |-> [i \in 1..Len(kept) |-> kept[i].symbol]]

\* the only adapter with a try/except: any failure gives []
fetch_okx(resp) ==
    LET keep(s) == s.settleCcy = "USDT"
        kept == SelectSeq(resp.body, keep)
    IN  IF resp.kind # "ok" THEN [raised |-> FALSE, symbols |-> <<>>]
        ELSE [raised |-> FALSE,
              symbols |-> [i \in 1..Len(kept) |-> Replace(kept[i].instId, DashSWAP)]]

fetch_upbit(resp) ==
    LET keep(s) == StartsWith(s.market, KRW_)
        kept == SelectSeq(resp.body, keep)
    IN  IF resp.kind # "ok" THEN [raised |-> TRUE, symbols |-> <<>>]
        ELSE [raised |-> FALSE, symbols |-> [i \in 1..Len(kept) |-> kept[i].market]]

fetch(source, resp) ==
    CASE source = "Binance" -> fetch_binance(resp)
      [] source = "Bybit" -> fetch_bybit(resp)
      [] source = "OKX" -> fetch_okx(resp)
      [] source = "Upbit" -> fetch_upbit(resp)

\* the dict display {"Binance": fetch_binance(), ...}: the four calls are
\* made in order and the first one that raises ends the evaluation
FetchAll(resps) ==
    LET got == [s \in SourceSet |-> fetch(s, resps[s])]
        firstRaise == {i \in 1..4 : got[Sources[i]].raised
                                     /\ \A j \in 1..(i - 1) : ~got[Sources[j]].raised}
    IN  [raised |-> firstRaise # {},
         all_sources |-> [s \in SourceSet |->
                            IF firstRaise = {} THEN got[s].symbols ELSE <<>>]]

\* the (source, symbol) entries in the order of the nested for loops
RECURSIVE Flatten(_, _)
Flatten(all, i) ==
    IF i > 4 THEN <<>>
    ELSE [k \in 1..Len(all[Sources[i]]) |-> <<Sources[i], all[Sources[i]][k]>>]
         \o Flatten(all, i + 1)

\* ------------------------------------------------------------------- store
\* RECORD_FILE is [exists, readable, records]: whether the file is there,
\* whether json.load can parse it, and the list it holds.  The dated backup
\* copy is never read back and is left out.
NoFile == [exists |-> FALSE, readable |-> FALSE, records |-> <<>>]

\* outcomes of save_records: written (a failure of the backup copy that
\* follows is caught and changes nothing); open() failed (file untouched);
\* open() truncated the file and json.dump failed (file left unparseable)
SaveOutcomes == {"ok", "open_fail", "write_fail"}

\* read_fault: the open or the json.load of this call fails
load_records(f, read_fault) ==
    IF ~f.exists THEN <<>>
    ELSE IF ~f.readable \/ read_fault THEN <<>>
    ELSE f.records

save_records(f, records, outcome) ==
    CASE outcome = "ok" -> [exists |-> TRUE, readable |-> TRUE, records |-> records]
      [] outcome = "open_fail" -> f
      [] outcome = "write_fail" -> [exists |-> TRUE, readable |-> FALSE, records |-> <<>>]

Observation(source, symbol, now) ==
    [source |-> source, symbol |-> symbol, timestamp |-> now]

append_record(f, source, symbol, now, read_fault, outcome) ==
    LET records == load_records(f, read_fault)
    IN  save_records(f, Append(records, Observation(source, symbol, now)), outcome)

PairsOf(records) == {<<records[i].source, records[i].symbol>> : i \in 1..Len(records)}

get_last_symbols(f, read_fault) == PairsOf(load_records(f, read_fault))

\* a notification line; symbol is the raw symbol the line was made for,
\* text is what the message shows
Line(source, symbol) ==
    [source |-> source, symbol |-> symbol, text |-> clean_symbol(symbol)]

LinePairs(lines) == {<<lines[i].source, lines[i].symbol>> : i \in 1..Len(lines)}

\* initialize_record_file had it reported the seeded symbols as new listings
initialize_record_file_announcing(f, resps, now, outcome) ==
    IF f.exists THEN [file |-> f, raised |-> FALSE, lines |-> <<>>]
    ELSE LET fa == FetchAll(resps)
             entries == Flatten(fa.all_sources, 1)
             records == [i \in 1..Len(entries) |->
                            Observation(entries[i][1], entries[i][2], now)]
         IN  IF fa.raised
             THEN [file |-> f, raised |-> TRUE, lines |-> <<>>]
             ELSE [file |-> save_records(f, records, outcome),
                   raised |-> FALSE,
                   lines |-> [i \in 1..Len(entries) |-> Line(entries[i][1], entries[i][2])]]

\* the effect of initialize_record_file: the file afterwards, whether the
\* call raised, and the new-listing lines it produced
initialize_record_file(f, resps, now, outcome) ==
    IF f.exists THEN [file |-> f, raised |-> FALSE, lines |-> <<>>]
    ELSE LET fa == FetchAll(resps)
             entries == Flatten(fa.all_sources, 1)
             records == [i \in 1..Len(entries) |->
                            Observation(entries[i][1], entries[i][2], now)]
         IN  IF fa.raised
             THEN [file |-> f, raised |-> TRUE, lines |-> <<>>]
             ELSE [file |-> save_records(f, records, outcome),
                   raised |-> FALSE, lines |-> <<>>]

\* ---------------------------------------------------------------- notifier
\* outcomes of requests.post: accepted; answered with an error status (no
\* exception); destination unreachable (the call raises)
DeliveryOutcomes == {"delivered", "rejected", "unreachable"}

notify(text, net) == [raised |-> net = "unreachable", text |-> text]

\* notify had it awaited an asynchronous HTTP client
notify_suspends_on_io == TRUE

\* notify contains no await that suspends: requests.post blocks the loop
notify_suspends == FALSE

\* ------------------------------------------------------------------- state
Tasks == {"job", "forcecheck"}

VARIABLES
    RECORD_FILE,    \* the record file
    clock,          \* datetime.now(TW), in whole seconds
    main_pc,        \* main(): "start", "initialized", "polling", "crashed"
    running,        \* the coroutine that holds the event loop, or "none"
    pc,             \* per task: "idle", "fetched", "loop", "end", "raised", "reply"
    all_sources,    \* per task: check_all's all_sources
    last_symbols,   \* per task: check_all's last_symbols
    notified,       \* per task: check_all's notified
    pos,            \* per task: index of the next entry of the nested loops
    resp,           \* per task: what each exchange answered: the kind of answer
                    \* and the symbols its body lists (after the adapter's filter)
    saved,          \* per task: the pairs whose save_records succeeded
    delivery,       \* per task: "none", or the outcome of the notify call
    store0,         \* per task: the record file when the cycle started
    cycles,         \* number of check_all invocations started
    faults,         \* number of failures injected so far
    lined,          \* pairs that got a line in a cycle that has finished
    relined,        \* pairs that got a line in two different cycles
    baseline,       \* pairs of the snapshot initialize_record_file has just fetched
    command,        \* the query command answered: "none", "record", "check"
    read_failed,    \* whether the load_records call of that command failed
    reply,          \* the lines of the text passed to reply_text
    raw,            \* normalizer check: the raw identifier
    applied         \* normalizer check: results of successive clean_symbol calls

task_vars == <<pc, all_sources, last_symbols, notified, pos, resp, saved, delivery, store0>>
norm_vars == <<raw, applied>>
view_vars == <<command, read_failed, reply>>
vars == <<RECORD_FILE, clock, main_pc, running, task_vars, cycles, faults, lined, relined, baseline, norm_vars, view_vars>>

NoSnapshot == [s \in SourceSet |-> <<>>]
NoAnswers == [s \in SourceSet |-> [kind |-> "none", symbols |-> <<>>]]
Listed(source, r) ==
    [kind |-> r.kind,
     symbols |-> IF r.kind = "ok" THEN fetch(source, r).symbols ELSE <<>>]

\* a log left by an earlier run of the program
PriorLog == [exists |-> TRUE, readable |-> TRUE,
             records |-> <<Observation("Binance", AUSDT, 0)>>]

\* one answer per exchange
Snapshots ==
    {[Binance |-> b, Bybit |-> y, OKX |-> o, Upbit |-> u] :
        b \in Responses("Binance"), y \in Responses("Bybit"),
        o \in Responses("OKX"), u \in Responses("Upbit")}

Cost(failed) == IF failed THEN 1 ELSE 0
FetchFaults(resps) == Cardinality({s \in SourceSet : resps[s].kind # "ok"})

Init ==
    /\ RECORD_FILE \in {NoFile, PriorLog}
    /\ clock = 0
    /\ main_pc = "start"
    /\ running = "none"
    /\ pc = [t \in Tasks |-> "idle"]
    /\ all_sources = [t \in Tasks |-> NoSnapshot]
    /\ last_symbols = [t \in Tasks |-> {}]
    /\ notified = [t \in Tasks |-> <<>>]
    /\ pos = [t \in Tasks |-> 1]
    /\ resp = [t \in Tasks |-> NoAnswers]
    /\ saved = [t \in Tasks |-> <<>>]
    /\ delivery = [t \in Tasks |-> "none"]
    /\ store0 = [t \in Tasks |-> NoFile]
    /\ cycles = 0
    /\ faults = 0
    /\ lined = {}
    /\ baseline = {}
    /\ command = "none"
    /\ read_failed = FALSE
    /\ reply = <<>>
    /\ relined = {}
    /\ raw = <<>>
    /\ applied = <<>>

\* datetime.now(TW): the wall clock has not gone back since it was last read
Now == clock..MaxClock

\* main, line 189: initialize_record_file()
MainInitialize ==
    /\ main_pc = "start"
    /\ \E resps \in Snapshots, outcome \in SaveOutcomes, now \in Now :
         LET r == initialize_record_file(RECORD_FILE, resps, now, outcome)
             \* nothing is fetched when the file exists, nothing is written
             \* when a fetch raised
             used == IF RECORD_FILE.exists THEN 0
                     ELSE FetchFaults(resps)
                          + (IF r.raised THEN 0 ELSE Cost(outcome # "ok"))
         IN  /\ used <= MaxFaults - faults
             /\ faults' = faults + used
             /\ clock' = IF RECORD_FILE.exists \/ r.raised THEN clock ELSE now
             /\ RECORD_FILE' = r.file
             /\ main_pc' = IF r.raised THEN "crashed" ELSE "initialized"
             /\ lined' = lined \cup LinePairs(r.lines)
             /\ baseline' = IF RECORD_FILE.exists \/ r.raised THEN {}
                            ELSE LET entries == Flatten(FetchAll(resps).all_sources, 1)
                                 IN  {entries[i] : i \in 1..Len(entries)}
    /\ UNCHANGED <<running, task_vars, cycles, relined, norm_vars, view_vars>>

\* main, lines 190-203: handlers, scheduler, the start-up message, polling
MainStart ==
    /\ main_pc = "initialized"
    /\ \E net \in DeliveryOutcomes :
         /\ Cost(net # "delivered") <= MaxFaults - faults
         /\ faults' = faults + Cost(net # "delivered")
         /\ main_pc' = IF notify(<<"started">>, net).raised THEN "crashed" ELSE "polling"
         /\ baseline' = {}
    /\ UNCHANGED <<RECORD_FILE, clock, running, task_vars, cycles, lined, relined, norm_vars, view_vars>>

\* a coroutine runs when it holds the event loop or the loop is free
CanRun(t) == running \in {"none", t}

\* check_all, lines 114-119: the interval job fires or /forcecheck arrives,
\* and the four adapters are called
Start(t) ==
    /\ main_pc = "polling"
    /\ pc[t] = "idle"
    /\ CanRun(t)
    /\ cycles < MaxCycles
    /\ \E resps \in Snapshots :
         LET fa == FetchAll(resps)
         IN  /\ FetchFaults(resps) <= MaxFaults - faults
             /\ faults' = faults + FetchFaults(resps)
             /\ pc' = [pc EXCEPT ![t] = IF fa.raised THEN "raised" ELSE "fetched"]
             /\ all_sources' = [all_sources EXCEPT ![t] = fa.all_sources]
             /\ resp' = [resp EXCEPT ![t] = [s \in SourceSet |-> Listed(s, resps[s])]]
    /\ store0' = [store0 EXCEPT ![t] = RECORD_FILE]
    /\ cycles' = cycles + 1
    /\ running' = t
    /\ UNCHANGED <<RECORD_FILE, clock, main_pc, last_symbols, notified, pos, saved,
                   delivery, lined, relined, baseline, norm_vars, view_vars>>

\* check_all, lines 121-122
GetLast(t) ==
    /\ pc[t] = "fetched"
    /\ CanRun(t)
    /\ \E read_fault \in BOOLEAN :
         /\ read_fault => RECORD_FILE.exists
         /\ Cost(read_fault) <= MaxFaults - faults
         /\ faults' = faults + Cost(read_fault)
         /\ last_symbols' = [last_symbols EXCEPT ![t] = get_last_symbols(RECORD_FILE, read_fault)]
    /\ notified' = [notified EXCEPT ![t] = <<>>]
    /\ pos' = [pos EXCEPT ![t] = 1]
    /\ pc' = [pc EXCEPT ![t] = "loop"]
    /\ running' = t
    /\ UNCHANGED <<RECORD_FILE, clock, main_pc, all_sources, resp, saved, delivery,
                   store0, cycles, lined, relined, baseline, norm_vars, view_vars>>

Entries(t) == Flatten(all_sources[t], 1)

\* line 126: (source, symbol) not in last_symbols
is_new(source, symbol, last) == <<source, symbol>> \notin last

\* check_all, lines 124-129: one iteration of the nested loops
LoopIter(t) ==
    /\ pc[t] = "loop"
    /\ CanRun(t)
    /\ pos[t] <= Len(Entries(t))
    /\ LET source == Entries(t)[pos[t]][1]
           symbol == Entries(t)[pos[t]][2]
       IN  IF is_new(source, symbol, last_symbols[t])
           THEN \E read_fault \in BOOLEAN, outcome \in SaveOutcomes, now \in Now :
                  /\ read_fault => RECORD_FILE.exists
                  /\ Cost(read_fault) + Cost(outcome # "ok") <= MaxFaults - faults
                  /\ faults' = faults + Cost(read_fault) + Cost(outcome # "ok")
                  /\ RECORD_FILE' = append_record(RECORD_FILE, source, symbol, now,
                                                  read_fault, outcome)
                  /\ clock' = now
                  /\ notified' = [notified EXCEPT ![t] = Append(@, Line(source, symbol))]
                  /\ saved' = [saved EXCEPT ![t] =
                                 IF outcome = "ok" THEN Append(@, <<source, symbol>>) ELSE @]
                  /\ relined' = IF <<source, symbol>> \in lined
                                THEN relined \cup {<<source, symbol>>} ELSE relined
           ELSE UNCHANGED <<RECORD_FILE, clock, notified, saved, relined, faults>>
    /\ pos' = [pos EXCEPT ![t] = @ + 1]
    /\ running' = t
    /\ UNCHANGED <<main_pc, pc, all_sources, last_symbols, resp, delivery, store0,
                   cycles, lined, baseline, norm_vars, view_vars>>

\* check_all, lines 131-134: one message with all the lines, or none
Deliver(t) ==
    /\ pc[t] = "loop"
    /\ CanRun(t)
    /\ pos[t] > Len(Entries(t))
    /\ IF notified[t] # <<>>
       THEN /\ \E net \in DeliveryOutcomes :
                 /\ Cost(net # "delivered") <= MaxFaults - faults
                 /\ faults' = faults + Cost(net # "delivered")
                 /\ delivery' = [delivery EXCEPT ![t] = net]
                 /\ pc' = [pc EXCEPT ![t] =
                             IF notify(notified[t], net).raised THEN "raised" ELSE "end"]
            /\ running' = IF notify_suspends THEN "none" ELSE t
       ELSE /\ pc' = [pc EXCEPT ![t] = "end"]
            /\ running' = t
            /\ UNCHANGED <<delivery, faults>>
    /\ UNCHANGED <<RECORD_FILE, clock, main_pc, all_sources, last_symbols, notified, pos,
                   resp, saved, store0, cycles, lined, relined, baseline, norm_vars, view_vars>>

\* check_all returns or raises to its caller: the scheduler's job runner,
\* or force_check (lines 165-166), which then awaits reply_text
Finish(t) ==
    /\ pc[t] \in {"end", "raised"}
    /\ CanRun(t)
    /\ pc' = [pc EXCEPT ![t] = IF t = "forcecheck" /\ pc[t] = "end" THEN "reply" ELSE "idle"]
    /\ lined' = lined \cup LinePairs(notified[t])
    /\ all_sources' = [all_sources EXCEPT ![t] = NoSnapshot]
    /\ last_symbols' = [last_symbols EXCEPT ![t] = {}]
    /\ notified' = [notified EXCEPT ![t] = <<>>]
    /\ pos' = [pos EXCEPT ![t] = 1]
    /\ resp' = [resp EXCEPT ![t] = NoAnswers]
    /\ saved' = [saved EXCEPT ![t] = <<>>]
    /\ delivery' = [delivery EXCEPT ![t] = "none"]
    /\ store0' = [store0 EXCEPT ![t] = NoFile]
    /\ running' = "none"
    /\ UNCHANGED <<RECORD_FILE, clock, main_pc, cycles, faults, relined, baseline, norm_vars, view_vars>>

\* force_check, line 166: the reply is sent and the handler returns
Reply(t) ==
    /\ pc[t] = "reply"
    /\ CanRun(t)
    /\ pc' = [pc EXCEPT ![t] = "idle"]
    /\ running' = "none"
    /\ UNCHANGED <<RECORD_FILE, clock, main_pc, all_sources, last_symbols, notified, pos,
                   resp, saved, delivery, store0, cycles, faults, lined, relined, baseline, norm_vars, view_vars>>

Next ==
    \/ MainInitialize
    \/ MainStart
    \/ \E t \in Tasks : Start(t)
    \/ \E t \in Tasks : GetLast(t)
    \/ \E t \in Tasks : LoopIter(t)
    \/ \E t \in Tasks : Deliver(t)
    \/ \E t \in Tasks : Finish(t)
    \/ \E t \in Tasks : Reply(t)

Spec == Init /\ [][Next]_vars

\* ------------------------------------------------- the normalizer on its own
Pieces == {KRW_, DashUSDT, DashSWAP, USDT, <<"A">>, <<"B", "T", "C">>}

RECURSIVE Concat(_)
Concat(q) == IF q = <<>> THEN <<>> ELSE Head(q) \o Concat(Tail(q))

RawInputs == {Concat(q) : q \in SeqsUpTo(Pieces, MaxPieces)}

InitNorm ==
    /\ RECORD_FILE = NoFile
    /\ clock = 0
    /\ main_pc = "start"
    /\ running = "none"
    /\ pc = [t \in Tasks |-> "idle"]
    /\ all_sources = [t \in Tasks |-> NoSnapshot]
    /\ last_symbols = [t \in Tasks |-> {}]
    /\ notified = [t \in Tasks |-> <<>>]
    /\ pos = [t \in Tasks |-> 1]
    /\ resp = [t \in Tasks |-> NoAnswers]
    /\ saved = [t \in Tasks |-> <<>>]
    /\ delivery = [t \in Tasks |-> "none"]
    /\ store0 = [t \in Tasks |-> NoFile]
    /\ cycles = 0
    /\ faults = 0
    /\ lined = {}
    /\ baseline = {}
    /\ command = "none"
    /\ read_failed = FALSE
    /\ reply = <<>>
    /\ relined = {}
    /\ raw \in RawInputs
    /\ applied = <<>>

\* clean_symbol is applied to the raw identifier, then to its own result
Normalize ==
    /\ Len(applied) < 2
    /\ applied' = Append(applied,
                         clean_symbol(IF applied = <<>> THEN raw ELSE applied[Len(applied)]))
    /\ UNCHANGED <<RECORD_FILE, clock, main_pc, running, task_vars, cycles, faults,
                   lined, relined, baseline, raw, view_vars>>

NextNorm == Normalize

SpecNorm == InitNorm /\ [][NextNorm]_vars

\* ----------------------------------------------------------- query commands
\* records[-5:] and grouped[source][:10]
LastN == 5
TopN == 10

MaxStore == 11
MaxStamp == 60

\* the placeholders of show_record (line 186) and check_command (line 161)
NO_DATA == "show_record: no data"
NO_NEW_RECORDS == "check_command: no new records"

\* one line of a reply.  A header line has only its kind and, in
\* check_command, its source.  A show_record line prints timestamp, source
\* and text (the raw symbol).  A check_command line prints time_str and text
\* (the display symbol); its source and timestamp are kept to tell which
\* observation it renders.
ReplyLine(kind, source, timestamp, time_str, text) ==
    [kind |-> kind, source |-> source, timestamp |-> timestamp,
     time_str |-> time_str, text |-> text]

Placeholder(text) == <<ReplyLine("placeholder", "", 0, 0, text)>>

\* records[-n:]
Last(records, n) ==
    SubSeq(records, IF Len(records) > n THEN Len(records) - n + 1 ELSE 1, Len(records))

\* line 186 had the conditional applied to the joined lines only
show_record_header_first(f, read_fault) ==
    LET records == load_records(f, read_fault)
        last == Last(records, LastN)
        lines == [i \in 1..Len(last) |->
                    ReplyLine("record", last[i].source, last[i].timestamp, 0, last[i].symbol)]
    IN  <<ReplyLine("header", "", 0, 0, <<>>)>>
        \o (IF lines # <<>> THEN lines ELSE Placeholder(NO_DATA))

\* show_record, lines 182-186
show_record(f, read_fault) ==
    LET records == load_records(f, read_fault)
        last == Last(records, LastN)
        lines == [i \in 1..Len(last) |->
                    ReplyLine("record", last[i].source, last[i].timestamp, 0, last[i].symbol)]
    IN  IF lines # <<>>
        THEN <<ReplyLine("header", "", 0, 0, <<>>)>> \o lines
        ELSE Placeholder(NO_DATA)

\* line 145 without reverse=True
RECURSIVE sorted_by_timestamp(_)
sorted_by_timestamp(records) ==
    IF records = <<>> THEN <<>>
    ELSE LET r == Head(records)
             rest == sorted_by_timestamp(Tail(records))
             before == {i \in 1..Len(rest) : rest[i].timestamp < r.timestamp}
             k == Cardinality(before)
         IN  SubSeq(rest, 1, k) \o <<r>> \o SubSeq(rest, k + 1, Len(rest))

\* line 145: sorted(records, key=timestamp, reverse=True).  The sort is
\* stable: records of equal timestamp keep the order of the file.
RECURSIVE sorted_by_timestamp_reverse(_)
sorted_by_timestamp_reverse(records) ==
    IF records = <<>> THEN <<>>
    ELSE LET r == Head(records)
             rest == sorted_by_timestamp_reverse(Tail(records))
             before == {i \in 1..Len(rest) : rest[i].timestamp > r.timestamp}
             k == Cardinality(before)
         IN  SubSeq(rest, 1, k) \o <<r>> \o SubSeq(rest, k + 1, Len(rest))

\* lines 144-146: grouped[source]
grouped(records, source) ==
    LET of_source(r) == r.source = source
    IN  SelectSeq(sorted_by_timestamp_reverse(records), of_source)

\* lines 153-154: strptime gives a naive datetime, astimezone(TW) reads it as
\* the machine's local time and moves it to TW, strftime keeps month, day,
\* hour and minute.  Times are in seconds, shift (TW's offset minus the
\* machine's) and the result in minutes.
time_str(timestamp, shift) == (timestamp \div 60) + shift

\* TW's offset minus the machine's, in minutes: machine on TW time, on UTC
TZShifts == {0, 480}

\* lines 150-156: the lines of one source
Section(records, source, shift) ==
    LET all == grouped(records, source)
        recent == SubSeq(all, 1, IF Len(all) > TopN THEN TopN ELSE Len(all))
    IN  IF recent = <<>> THEN <<>>
        ELSE <<ReplyLine("header", source, 0, 0, <<>>)>>
             \o [i \in 1..Len(recent) |->
                   ReplyLine("entry", source, recent[i].timestamp,
                             time_str(recent[i].timestamp, shift),
                             clean_symbol(recent[i].symbol))]

\* lines 149-156: the for loop over the four sources
RECURSIVE Output(_, _, _)
Output(records, i, shift) ==
    IF i > 4 THEN <<>>
    ELSE Section(records, Sources[i], shift) \o Output(records, i + 1, shift)

\* check_command, lines 142-162
check_command(f, read_fault, shift) ==
    LET records == load_records(f, read_fault)
        text == Output(records, 1, shift)
    IN  IF text = <<>> THEN Placeholder(NO_NEW_RECORDS) ELSE text

\* the record files the commands are asked about: none, an unparseable one,
\* and the logs of up to MaxStore appends of Binance and Upbit observations,
\* the first k at time 0 and the others at MaxStamp
ViewSymbol == [Binance |-> AUSDT, Upbit |-> KRW_A]
Log(src, k) ==
    [i \in DOMAIN src |-> Observation(src[i], ViewSymbol[src[i]],
                                      IF i <= k THEN 0 ELSE MaxStamp)]
Unparseable == [exists |-> TRUE, readable |-> FALSE, records |-> <<>>]

InitViews ==
    /\ \/ RECORD_FILE \in {NoFile, Unparseable}
       \/ \E n \in 0..MaxStore :
            \E src \in [1..n -> DOMAIN ViewSymbol], k \in 0..n :
                RECORD_FILE = [exists |-> TRUE, readable |-> TRUE,
                               records |-> Log(src, k)]
    /\ clock = 0
    /\ main_pc = "polling"
    /\ running = "none"
    /\ pc = [t \in Tasks |-> "idle"]
    /\ all_sources = [t \in Tasks |-> NoSnapshot]
    /\ last_symbols = [t \in Tasks |-> {}]
    /\ notified = [t \in Tasks |-> <<>>]
    /\ pos = [t \in Tasks |-> 1]
    /\ resp = [t \in Tasks |-> NoAnswers]
    /\ saved = [t \in Tasks |-> <<>>]
    /\ delivery = [t \in Tasks |-> "none"]
    /\ store0 = [t \in Tasks |-> NoFile]
    /\ cycles = 0
    /\ faults = 0
    /\ lined = {}
    /\ relined = {}
    /\ baseline = {}
    /\ raw = <<>>
    /\ applied = <<>>
    /\ command = "none"
    /\ read_failed = FALSE
    /\ reply = <<>>

\* /showrecord arrives
ShowRecord ==
    /\ command = "none"
    /\ \E read_fault \in BOOLEAN :
         /\ read_fault => RECORD_FILE.exists
         /\ read_failed' = read_fault
         /\ reply' = show_record(RECORD_FILE, read_fault)
    /\ command' = "record"
    /\ UNCHANGED <<RECORD_FILE, clock, main_pc, running, task_vars, cycles, faults,
                   lined, relined, baseline, norm_vars>>

\* /check arrives
CheckCommand ==
    /\ command = "none"
    /\ \E read_fault \in BOOLEAN, shift \in TZShifts :
         /\ read_fault => RECORD_FILE.exists
         /\ read_failed' = read_fault
         /\ reply' = check_command(RECORD_FILE, read_fault, shift)
    /\ command' = "check"
    /\ UNCHANGED <<RECORD_FILE, clock, main_pc, running, task_vars, cycles, faults,
                   lined, relined, baseline, norm_vars>>

NextViews == ShowRecord \/ CheckCommand

SpecViews == InitViews /\ [][NextViews]_vars

\* ------------------------------------------------------------------ claims
\* check_all has been entered and has not yet returned or raised to its caller
InCycle(t) == pc[t] \in {"fetched", "loop", "end", "raised"}
\* the cycle has run to its last statement, or has raised
AtEnd(t) == pc[t] \in {"end", "raised"}
\* the exception came out of an adapter: notify was never reached
RaisedInFetch(t) == pc[t] = "raised" /\ delivery[t] = "none"
Range(q) == {q[i] : i \in 1..Len(q)}
IsPrefix(p, q) == Len(p) <= Len(q) /\ SubSeq(q, 1, Len(p)) = p
FailedSources(t) == {s \in SourceSet : resp[t][s].kind \in FailureKinds}

\* C1: no (source, symbol) pair gets a new-listing line in more than one
\* cycle, whatever fails in between
C1_NoDuplicateNotification == relined = {}

\* C2: the record log never holds two observations of the same
\* (source, symbol) pair
C2_OneObservationPerPair ==
    \A i, j \in 1..Len(RECORD_FILE.records) :
        (RECORD_FILE.records[i].source = RECORD_FILE.records[j].source
         /\ RECORD_FILE.records[i].symbol = RECORD_FILE.records[j].symbol) => i = j

\* C3: every step leaves the records that were in the log where they were:
\* the log after the step starts with the log before it
C3_AppendOnly == [][IsPrefix(RECORD_FILE.records, RECORD_FILE'.records)]_vars

\* C4: when initialize_record_file has returned, no new-listing line has been
\* produced, however many symbols it seeded
C4_BootstrapSilent ==
    main_pc = "initialized" =>
        /\ lined = {}
        /\ relined = {}
        /\ \A t \in Tasks : notified[t] = <<>> /\ delivery[t] = "none"
C4_Witness ==
    /\ main_pc = "initialized"
    /\ RECORD_FILE.exists /\ RECORD_FILE.readable
    /\ Len(RECORD_FILE.records) >= 4

\* C5: at the end of a cycle in which exactly one exchange failed to answer,
\* every pair the other three list that was not in the log when the cycle
\* started has been saved and has a line
C5_PartialFailureIsolation ==
    \A t \in Tasks :
        (AtEnd(t) /\ Cardinality(FailedSources(t)) = 1) =>
            \A s \in SourceSet \ FailedSources(t) :
                \A sym \in Range(resp[t][s].symbols) :
                    <<s, sym>> \notin PairsOf(store0[t].records) =>
                        /\ <<s, sym>> \in Range(saved[t])
                        /\ <<s, sym>> \in LinePairs(notified[t])

\* C6: an exchange that fails to answer never makes its adapter raise
C6_AdaptersNeverRaise ==
    \A t \in Tasks : FailedSources(t) # {} => ~RaisedInFetch(t)

\* C7: the interval job's check_all and /forcecheck's check_all are never in
\* progress at the same time
C7_OneCycleAtATime == ~(InCycle("job") /\ InCycle("forcecheck"))
C7_Witness ==
    /\ pc["forcecheck"] = "reply"
    /\ pc["job"] = "loop"
    /\ notified["job"] # <<>>

\* C8: a cycle whose message could not be delivered because the destination
\* is unreachable does not raise
C8_DeliveryFailureSwallowed ==
    \A t \in Tasks : delivery[t] = "unreachable" => pc[t] # "raised"

\* C9: at the end of a cycle that saved k >= 1 observations the Notifier has
\* been called and the message has exactly k lines, the i-th for the i-th
\* saved pair
C9_OneLinePerAppendedPair ==
    \A t \in Tasks :
        (AtEnd(t) /\ Len(saved[t]) >= 1) =>
            /\ delivery[t] # "none"
            /\ Len(notified[t]) = Len(saved[t])
            /\ \A i \in 1..Len(saved[t]) :
                 <<notified[t][i].source, notified[t][i].symbol>> = saved[t][i]

\* C10: clean_symbol applied to its own result changes nothing
C10_Idempotent == Len(applied) = 2 => applied[2] = applied[1]

\* C15: when the Notifier has been called, every pair with a line in the
\* message has an observation in the record file
C15_RecordBeforeNotify ==
    \A t \in Tasks :
        delivery[t] # "none" =>
            LinePairs(notified[t]) \subseteq get_last_symbols(RECORD_FILE, FALSE)

\* the cycle has read its known pairs, and the read failed: the file was
\* there but unparseable, or the set read is not the set the file held
ReadFailed(t) ==
    /\ pc[t] \in {"loop", "end", "raised"}
    /\ ~RaisedInFetch(t)
    /\ store0[t].exists
    /\ \/ ~store0[t].readable
       \/ last_symbols[t] # PairsOf(store0[t].records)

\* C16: a cycle whose read of the record file failed does not take the
\* pairs the file held for new: none of them gets a line
C16_ReadFailureIsNotEmptyStore ==
    \A t \in Tasks :
        ReadFailed(t) => LinePairs(notified[t]) \cap PairsOf(store0[t].records) = {}

\* C14: in a cycle that read its known pairs as the file held them, no pair
\* gets more than one line and no pair is saved more than once, also when
\* the adapter's list repeats a new symbol
C14_DuplicatesAreNoOps ==
    \A t \in Tasks :
        ~ReadFailed(t) =>
            /\ \A i, j \in 1..Len(notified[t]) :
                 (notified[t][i].source = notified[t][j].source
                  /\ notified[t][i].symbol = notified[t][j].symbol) => i = j
            /\ \A i, j \in 1..Len(saved[t]) : saved[t][i] = saved[t][j] => i = j

\* C18: at the end of a cycle whose snapshot holds only pairs the record
\* file held when the cycle started, the record file is as it was then and
\* the Notifier has not been called
C18_NoNewPairsNoChange ==
    \A t \in Tasks :
        (AtEnd(t) /\ Range(Entries(t)) \subseteq PairsOf(store0[t].records)) =>
            /\ RECORD_FILE = store0[t]
            /\ notified[t] = <<>>
            /\ delivery[t] = "none"

\* C19: the display symbol of every raw identifier is what the ordered rules
\* give: a leading KRW- is cut off and nothing else; otherwise the first of
\* -USDT, -SWAP, USDT the identifier ends with is cut off its end, once;
\* otherwise the identifier itself
C19_OrderedRules ==
    Len(applied) >= 1 =>
        LET cut(suffix) == SubSeq(raw, 1, Len(raw) - Len(suffix))
            rules == IF StartsWith(raw, KRW_)
                     THEN SubSeq(raw, Len(KRW_) + 1, Len(raw))
                     ELSE IF EndsWith(raw, DashUSDT) THEN cut(DashUSDT)
                     ELSE IF EndsWith(raw, DashSWAP) THEN cut(DashSWAP)
                     ELSE IF EndsWith(raw, USDT) THEN cut(USDT)
                     ELSE raw
        IN  applied[1] = rules

\* C17: when initialize_record_file has returned, every pair of the snapshot
\* it fetched is among the known pairs the next cycle will read
C17_BaselineKnown ==
    main_pc = "initialized" => baseline \subseteq get_last_symbols(RECORD_FILE, FALSE)

\* C11: /showrecord answers with the min(5, n) observations appended last, the
\* one appended last on the first line and an older one on each line after
C11_NewestFirst ==
    (command = "record" /\ ~read_failed /\ RECORD_FILE.exists /\ RECORD_FILE.readable) =>
        LET records == RECORD_FILE.records
            n == Len(records)
            m == IF n > LastN THEN LastN ELSE n
        IN  \A k \in 1..m :
                /\ Len(reply) = m + 1
                /\ reply[k + 1] = ReplyLine("record", records[n - k + 1].source,
                                            records[n - k + 1].timestamp, 0,
                                            records[n - k + 1].symbol)

\* C12: /check renders, for every source, min(10, count) of its observations,
\* none but those of the greatest timestamps, in non-increasing order of
\* timestamp, and nothing at all for a source without observations
C12_TopPerSource ==
    (command = "check" /\ ~read_failed) =>
        \A source \in SourceSet :
            LET records == load_records(RECORD_FILE, FALSE)
                held == {i \in 1..Len(records) : records[i].source = source}
                shown == {j \in 1..Len(reply) :
                            reply[j].kind = "entry" /\ reply[j].source = source}
                headers == {j \in 1..Len(reply) :
                              reply[j].kind = "header" /\ reply[j].source = source}
                at(x) == Cardinality({i \in held : records[i].timestamp = x})
                above(x) == Cardinality({i \in held : records[i].timestamp > x})
                room(x) == IF above(x) >= TopN THEN 0 ELSE TopN - above(x)
            IN  /\ Cardinality(shown)
                     = (IF Cardinality(held) > TopN THEN TopN ELSE Cardinality(held))
                /\ \A j1, j2 \in shown :
                     j1 < j2 => reply[j1].timestamp >= reply[j2].timestamp
                /\ \A x \in {records[i].timestamp : i \in held}
                            \cup {reply[j].timestamp : j \in shown} :
                     Cardinality({j \in shown : reply[j].timestamp = x})
                         = (IF at(x) > room(x) THEN room(x) ELSE at(x))
                /\ held = {} => shown = {} /\ headers = {}
                /\ held # {} => Cardinality(headers) = 1
C12_Witness ==
    /\ command = "check"
    /\ ~read_failed
    /\ LET records == RECORD_FILE.records
           binance == {i \in 1..Len(records) : records[i].source = "Binance"}
       IN  /\ RECORD_FILE.readable
           /\ Cardinality(binance) > TopN
           /\ \E i, j \in binance : records[i].timestamp < records[j].timestamp
           /\ records[1].source = "Binance" /\ records[1].timestamp = 0
           /\ \A i \in 1..Len(records) : records[i].source # "Upbit"
           /\ Len(reply) = TopN + 1

\* C13: when the record file is missing, unparseable, holds an empty list or
\* cannot be read, /showrecord and /check each answer with their placeholder and
\* nothing else
C13_PlaceholderOnNoData ==
    (/\ command # "none"
     /\ \/ ~RECORD_FILE.exists
        \/ ~RECORD_FILE.readable
        \/ RECORD_FILE.records = <<>>
        \/ read_failed) =>
        reply = Placeholder(IF command = "record" THEN NO_DATA ELSE NO_NEW_RECORDS)
C13_Witness ==
    /\ command = "record"
    /\ RECORD_FILE.exists
    /\ ~RECORD_FILE.readable
    /\ reply = Placeholder(NO_DATA)

====
